---- MODULE Spec2Model ----
(***************************************************************************)
(* Wordle game server: the word list, the guess evaluation and the game    *)
(* service running on a store of Game and Guess rows.  Requests are        *)
(* served concurrently; every store call of a request is one atomic step.  *)
(* Words are sequences of one-character strings.                           *)
(***************************************************************************)
EXTENDS Integers, Sequences, FiniteSets, TLC

(* ------------------------------ bounds --------------------------------- *)
\* rows the games table may hold in a run
MaxGames == 1
\* store calls that may fail in a run
MaxFaults == 1
\* rows the games table may hold in a run that plays several games
MaxGamesSeveral == 2
\* letters of the words EvaluateGuess is applied to, besides the scenarios
MaxEvalLen == 3
\* calls of WordList.Reload
MaxReloads == 1

(* ------------------------- program constants --------------------------- *)
DefaultWordLength == 5
FiveLetters == 5
TargetWordColumn == 5
StatusOK == 200
StatusCreated == 201
StatusBadRequest == 400
StatusNotFound == 404
StatusInternalServerError == 500

\* the two requests served at the same time
Procs == {"r1", "r2"}

\* a nil *time.Time
NoTime == 0

(* ------------------------------ strings -------------------------------- *)
LowerLetters ==
  <<"a","b","c","d","e","f","g","h","i","j","k","l","m",
    "n","o","p","q","r","s","t","u","v","w","x","y","z">>

UpperLetters ==
  <<"A","B","C","D","E","F","G","H","I","J","K","L","M",
    "N","O","P","Q","R","S","T","U","V","W","X","Y","Z">>

\* the upper-case form of every lower-case letter
UpperOf ==
  [c \in {LowerLetters[i] : i \in DOMAIN LowerLetters} |->
     UpperLetters[CHOOSE i \in DOMAIN LowerLetters : LowerLetters[i] = c]]

\* the lower-case form of every upper-case letter
LowerOf ==
  [c \in {UpperLetters[i] : i \in DOMAIN UpperLetters} |->
     LowerLetters[CHOOSE i \in DOMAIN UpperLetters : UpperLetters[i] = c]]

ToUpperChar(c) == IF c \in DOMAIN UpperOf THEN UpperOf[c] ELSE c

ToLowerChar(c) == IF c \in DOMAIN LowerOf THEN LowerOf[c] ELSE c

\* strings.ToUpper
ToUpper(s) == [i \in DOMAIN s |-> ToUpperChar(s[i])]

\* strings.ToLower
ToLower(s) == [i \in DOMAIN s |-> ToLowerChar(s[i])]

IsSpace(c) == c \in {" ", "\t", "\r"}

RECURSIVE TrimLeft(_)
TrimLeft(s) ==
  IF s # <<>> /\ IsSpace(Head(s)) THEN TrimLeft(Tail(s)) ELSE s

RECURSIVE TrimRight(_)
TrimRight(s) ==
  IF s # <<>> /\ IsSpace(s[Len(s)])
  THEN TrimRight(SubSeq(s, 1, Len(s) - 1))
  ELSE s

\* strings.TrimSpace
TrimSpace(s) == TrimRight(TrimLeft(s))

(* ----------------------------- word list ------------------------------- *)
\* a scan that keeps the lines as they are written
ScanLine_AsWritten(words, line) ==
  IF line # <<>> THEN Append(words, line) ELSE words

\* one turn of the scanner loop: the line trimmed and, when not blank,
\* appended in lower case
ScanLine(words, line) ==
  LET word == TrimSpace(line)
  IN  IF word # <<>> THEN Append(words, ToLower(word)) ELSE words

\* the lines a scan of a word file yields, appended to words
RECURSIVE ScanWords(_, _)
ScanWords(lines, words) ==
  IF lines = <<>> THEN words
  ELSE ScanWords(Tail(lines), ScanLine(words, Head(lines)))

SeqToSet(s) == {s[i] : i \in DOMAIN s}

\* WordList.loadValidWords on a readable file
loadValidWords(wl, lines) ==
  LET words == ScanWords(lines, <<>>)
  IN  [wl EXCEPT !.validWords = words, !.validWordSet = SeqToSet(words)]

\* WordList.loadTargetWords on a readable file
loadTargetWords(wl, lines) ==
  LET words == ScanWords(lines, <<>>)
  IN  [wl EXCEPT !.targetWords = words, !.targetWordSet = SeqToSet(words)]

\* WordList.loadWords when both files are readable
loadWords(wl, validLines, targetLines) ==
  loadTargetWords(loadValidWords(wl, validLines), targetLines)

\* the WordList NewWordList builds before it loads
EmptyWordList ==
  [validWords |-> <<>>, validWordSet |-> {},
   targetWords |-> <<>>, targetWordSet |-> {}]

\* NewWordList: the empty lists, then loadWords
NewWordList(validLines, targetLines) ==
  loadWords(EmptyWordList, validLines, targetLines)

\* a word file: whether os.Open succeeds on it, and its lines
File(lines) == [readable |-> TRUE, lines |-> lines]
Unreadable == [readable |-> FALSE, lines |-> <<>>]

\* the record of a load that has finished: the files read, the list it
\* started from, its error
Loaded(validFile, targetFile, before, err, count) ==
  [stage |-> "idle", valid |-> validFile, target |-> targetFile,
   rest |-> <<>>, before |-> before, err |-> err, count |-> count]

\* a word list that recognises every word
Contains_Any(wl, word) == TRUE

\* a lookup of the word as it is written
Contains_CaseSensitive(wl, word) == word \in wl.validWordSet

\* a lookup of the upper-case form
Contains_UpperCased(wl, word) == ToUpper(word) \in wl.validWordSet

\* WordList.Contains
Contains(wl, word) == ToLower(word) \in wl.validWordSet

\* WordList.WordsOfLength
WordsOfLength(wl, length) ==
  LET HasLength(w) == Len(w) = length
  IN  SelectSeq(wl.validWords, HasLength)

\* WordList.FiveLetterWords
FiveLetterWords(wl) == WordsOfLength(wl, FiveLetters)

\* WordList.Size
Size(wl) == Len(wl.validWords)

\* WordList.TargetWordsSize
TargetWordsSize(wl) == Len(wl.targetWords)

\* a selection from the validation words
RandomWord_FromValid(wl) ==
  IF Len(wl.validWords) = 0 THEN {<<>>}
  ELSE {wl.validWords[i] : i \in DOMAIN wl.validWords}

\* WordList.RandomWord: the values rand.Intn may select
RandomWord(wl) ==
  IF Len(wl.targetWords) = 0 THEN {<<>>}
  ELSE {wl.targetWords[i] : i \in DOMAIN wl.targetWords}

(* --------------------------- guess evaluation -------------------------- *)
\* a target rune marked as used (targetChars[i] = 0)
Used == "\\0"

\* a first pass that marks no letter correct
FirstPassResult_NoCorrect(guess, target) ==
  [i \in DOMAIN guess |-> [letter |-> guess[i], status |-> "absent"]]

\* first pass of EvaluateGuess: the statuses and the target runes left
FirstPassResult(guess, target) ==
  [i \in DOMAIN guess |->
     [letter |-> guess[i],
      status |-> IF guess[i] = target[i] THEN "correct" ELSE "absent"]]

\* a first pass that does not mark the matched target runes as used
FirstPassTarget_Unmarked(guess, target) == target

FirstPassTarget(guess, target) ==
  [i \in DOMAIN target |-> IF guess[i] = target[i] THEN Used ELSE target[i]]

\* an inner loop that never finds a rune
FirstUnused_None(targetChars, char) == 0

\* the inner loop of the second pass: the first unused target index whose
\* rune is char, 0 when there is none
FirstUnused(targetChars, char) ==
  IF \E j \in DOMAIN targetChars : targetChars[j] # Used /\ targetChars[j] = char
  THEN CHOOSE j \in DOMAIN targetChars :
         /\ targetChars[j] # Used /\ targetChars[j] = char
         /\ \A k \in 1..(j - 1) : ~(targetChars[k] # Used /\ targetChars[k] = char)
  ELSE 0

\* an evaluation without its second pass
SecondPass_Skipped(i, guess, result, targetChars) == result

\* a second pass that marks the target rune it finds as used no more
RECURSIVE SecondPass_NoConsume(_, _, _, _)
SecondPass_NoConsume(i, guess, result, targetChars) ==
  IF i > Len(guess) THEN result
  ELSE IF result[i].status = "correct"
       THEN SecondPass_NoConsume(i + 1, guess, result, targetChars)
       ELSE IF FirstUnused(targetChars, guess[i]) # 0
            THEN SecondPass_NoConsume(i + 1, guess,
                                      [result EXCEPT ![i].status = "present"],
                                      targetChars)
            ELSE SecondPass_NoConsume(i + 1, guess, result, targetChars)

\* second pass of EvaluateGuess from position i on
RECURSIVE SecondPass(_, _, _, _)
SecondPass(i, guess, result, targetChars) ==
  IF i > Len(guess) THEN result
  ELSE IF result[i].status = "correct"
       THEN SecondPass(i + 1, guess, result, targetChars)
       ELSE LET j == FirstUnused(targetChars, guess[i])
            IN  IF j # 0
                THEN SecondPass(i + 1, guess,
                                [result EXCEPT ![i].status = "present"],
                                [targetChars EXCEPT ![j] = Used])
                ELSE SecondPass(i + 1, guess, result, targetChars)

\* the nil GuessResult; a non-nil one carries its LetterResults in items
NilResult == [isNil |-> TRUE, items |-> <<>>]

\* an empty result, not nil, for unequal lengths
EvaluateGuess_EmptyNotNil(guess, target) ==
  IF Len(guess) # Len(target) THEN [isNil |-> FALSE, items |-> <<>>]
  ELSE LET g == ToUpper(guess)
           t == ToUpper(target)
       IN  [isNil |-> FALSE,
            items |-> SecondPass(1, g, FirstPassResult(g, t),
                                 FirstPassTarget(g, t))]

\* the target compared as given, not upper-cased
EvaluateGuess_TargetAsGiven(guess, target) ==
  IF Len(guess) # Len(target) THEN NilResult
  ELSE LET g == ToUpper(guess)
       IN  [isNil |-> FALSE,
            items |-> SecondPass(1, g, FirstPassResult(g, target),
                                 FirstPassTarget(g, target))]

\* the guess compared and reported as given, not upper-cased
EvaluateGuess_GuessAsGiven(guess, target) ==
  IF Len(guess) # Len(target) THEN NilResult
  ELSE LET t == ToUpper(target)
       IN  [isNil |-> FALSE,
            items |-> SecondPass(1, guess, FirstPassResult(guess, t),
                                 FirstPassTarget(guess, t))]

\* EvaluateGuess
EvaluateGuess(guess, target) ==
  IF Len(guess) # Len(target) THEN NilResult
  ELSE LET g == ToUpper(guess)
           t == ToUpper(target)
       IN  [isNil |-> FALSE,
            items |-> SecondPass(1, g, FirstPassResult(g, t),
                                 FirstPassTarget(g, t))]

(* ------------------------------- errors -------------------------------- *)
\* An error is the chain of messages fmt.Errorf wrapped, outermost first.
NoError == <<>>

\* a message of the database driver, whose text the program does not set
DriverError == "driver error"

\* the phrases of makeGuessHandler that occur in a message
PhrasesIn(message) ==
  CASE message = "game not found" -> {"not found"}
    [] message = "game is already completed" -> {"already completed"}
    [] message = "guess must be N letters long" -> {"must be"}
    [] message = "is not a valid word" -> {"not a valid word"}
    [] message = "no remaining guesses" -> {"no remaining"}
    [] OTHER -> {}

\* strings.Contains(err.Error(), phrase)
ErrContains(err, phrase) == \E i \in DOMAIN err : phrase \in PhrasesIn(err[i])

\* makeGuessHandler: the status written for the outcome of MakeGuess
makeGuessStatus(err) ==
  IF err = NoError THEN StatusOK
  ELSE IF ErrContains(err, "not found") THEN StatusNotFound
  ELSE IF \/ ErrContains(err, "not a valid word")
          \/ ErrContains(err, "must be")
          \/ ErrContains(err, "already completed")
          \/ ErrContains(err, "no remaining")
       THEN StatusBadRequest
  ELSE StatusInternalServerError

\* createGameHandler: the status written for the outcome of CreateNewGame
createGameStatus(err) ==
  IF err = NoError THEN StatusCreated ELSE StatusInternalServerError

(* -------------------------------- state -------------------------------- *)
VARIABLES
  config,    \* GameConfig: MaxGuesses, WordLength
  wordList,  \* the WordList of the service
  games,     \* rows of the games table; the id of a row is its index
  guesses,   \* rows of the guesses table, in insertion order
  clock,     \* the reading of the clock
  faults,    \* store calls that have failed so far
  pc,        \* per request: the store call it makes next
  call,      \* per request: the arguments and locals of the running call
  ret,       \* per request: what its last call returned
  race,      \* per request: the requests that had read the same game and
             \* not yet written when this one issued its CreateGuess, with
             \* the game and the guess number they contend for
  clean,     \* per request: its running call began with the store past its
             \* last failure and no other call running, and none ran since
  eval,      \* a call of EvaluateGuess: its arguments and what it returned
  reload,    \* the last load of the word list: the two files it read, how
             \* far it has got, the list it started from and its error
  query      \* the last read-only call: its name, argument and result

vars == <<config, wordList, games, guesses, clock, faults, pc, call, ret,
          race, clean, eval, reload, query>>

\* no row: the call has loaded or returned no game
NoGame == [id |-> 0, targetWord |-> <<>>, createdAt |-> NoTime,
           completedAt |-> NoTime, isCompleted |-> FALSE, isWon |-> FALSE,
           guessCount |-> 0, maxGuesses |-> 0]

\* the locals of a request that runs no call
NoCall == [gameID |-> 0, rawWord |-> <<>>, guessWord |-> <<>>, game |-> NoGame]

\* a request that raced with no other
NoRace == [rivals |-> {}, gameID |-> 0, guessNumber |-> 0]

\* what a request that has not returned since it was received holds
NoRet == [op |-> "none", err |-> NoError, status |-> 0,
          game |-> NoGame, guesses |-> <<>>, message |-> <<>>]

(* -------------------------------- inputs ------------------------------- *)
hello == <<"h","e","l","l","o">>
World == <<" ","W","o","r","l","d">>
blank == <<" ">>

\* values of MAX_GUESSES
MaxGuessesChoices == {-1, 0, 1, 2}

\* what the server is started with: the lines of the validation word file,
\* the lines of the target word file and MAX_GUESSES
Deployments ==
  [valid : {<<hello, blank, World>>}, target : {<<hello>>},
   maxGuesses : MaxGuessesChoices]
  \cup [valid : {<<hello, blank, World>>}, target : {<<>>}, maxGuesses : {1}]
  \cup [valid : {<<>>}, target : {<<hello>>}, maxGuesses : {1}]

\* words a client submits; makeGuessHandler passes no empty guess_word on
GuessInputs ==
  { <<"h","e","l","l","o">>,
    <<" ","W","O","R","L","D"," ">>,
    <<"z","z","z","z","z">>,
    <<"h","i">> }

GameIDs == 1..MaxGames

\* whether the store call about to be made may fail
FaultChoices == IF faults < MaxFaults THEN {TRUE, FALSE} ELSE {FALSE}

\* no call of EvaluateGuess outside MakeGuess
NoEval == [guess |-> <<>>, target |-> <<>>, result |-> NilResult,
           applied |-> FALSE]

\* no read-only call yet
NoQuery == [op |-> "none"]

\* the empty store and no request
InitStore ==
  /\ games = <<>>
  /\ guesses = <<>>
  /\ clock = 1
  /\ faults = 0
  /\ pc = [p \in Procs |-> "idle"]
  /\ call = [p \in Procs |-> NoCall]
  /\ ret = [p \in Procs |-> NoRet]
  /\ race = [p \in Procs |-> NoRace]
  /\ clean = [p \in Procs |-> FALSE]

\* the server after start
InitService ==
  /\ \E d \in Deployments :
        /\ config = [MaxGuesses |-> d.maxGuesses, WordLength |-> DefaultWordLength]
        /\ wordList = NewWordList(d.valid, d.target)
        /\ reload = Loaded(File(d.valid), File(d.target), EmptyWordList,
                           NoError, 0)
  /\ InitStore
  /\ query = NoQuery

Init ==
  /\ InitService
  /\ eval = NoEval

(* -------------------------------- store -------------------------------- *)
\* GameRepository.CreateGame: the row INSERT ... RETURNING yields
CreateGame(targetWord, maxGuesses) ==
  [id |-> Len(games) + 1, targetWord |-> targetWord, createdAt |-> clock,
   completedAt |-> NoTime, isCompleted |-> FALSE, isWon |-> FALSE,
   guessCount |-> 0, maxGuesses |-> maxGuesses]

\* target_word VARCHAR(5): the INSERT of a longer word is refused
TargetWordFits(targetWord) == Len(targetWord) <= TargetWordColumn

\* an UPDATE without its WHERE clause
UpdateGame_EveryRow(rows, game) ==
  [i \in DOMAIN rows |->
     [rows[i] EXCEPT !.completedAt = game.completedAt,
                     !.isCompleted = game.isCompleted,
                     !.isWon = game.isWon,
                     !.guessCount = game.guessCount]]

\* GameRepository.UpdateGame: the table after a successful UPDATE, which
\* sets completed_at, is_completed, is_won and guess_count of the row
UpdateGame(rows, game) ==
  [rows EXCEPT ![game.id] =
     [@ EXCEPT !.completedAt = game.completedAt,
               !.isCompleted = game.isCompleted,
               !.isWon = game.isWon,
               !.guessCount = game.guessCount]]

\* an UPDATE that is applied although it returns an error
FailedUpdateGame_Applied(rows, game) ==
  [rows EXCEPT ![game.id] =
     [@ EXCEPT !.completedAt = game.completedAt,
               !.isCompleted = game.isCompleted,
               !.isWon = game.isWon,
               !.guessCount = game.guessCount]]

\* GameRepository.UpdateGame: the table after an UPDATE that returned an error
FailedUpdateGame(rows, game) == rows

\* a guesses table without the UNIQUE constraint
UniqueViolation_None(rows, gameID, guessNumber) == FALSE

\* UNIQUE(game_id, guess_number): the INSERT is refused with code 23505
UniqueViolation(rows, gameID, guessNumber) ==
  \E i \in DOMAIN rows :
     rows[i].gameID = gameID /\ rows[i].guessNumber = guessNumber

\* GuessRepository.CreateGuess: the table after a successful INSERT
CreateGuess(rows, gameID, guessWord, guessNumber, result) ==
  Append(rows, [gameID |-> gameID, guessWord |-> guessWord,
                guessNumber |-> guessNumber, result |-> result])

\* the rows of one game, in insertion order
GuessesOf(rows, gameID) ==
  LET OfGame(r) == r.gameID = gameID
  IN  SelectSeq(rows, OfGame)

\* ORDER BY guess_number ASC
RECURSIVE OrderByNumber(_)
OrderByNumber(rows) ==
  IF rows = <<>> THEN <<>>
  ELSE LET i == CHOOSE k \in DOMAIN rows :
                  \A m \in DOMAIN rows :
                     \/ rows[k].guessNumber < rows[m].guessNumber
                     \/ (rows[k].guessNumber = rows[m].guessNumber /\ k <= m)
           rest == [m \in 1..(Len(rows) - 1) |->
                      IF m < i THEN rows[m] ELSE rows[m + 1]]
       IN  <<rows[i]>> \o OrderByNumber(rest)

\* GuessRepository.GetGuessesByGameID
GetGuessesByGameID(rows, gameID) == OrderByNumber(GuessesOf(rows, gameID))

(* ------------------------------- service ------------------------------- *)
\* the completed check left out
IsCompletedCheck_Skipped(game) == FALSE

\* MakeGuess: the completed check on the loaded game
IsCompletedCheck(game) == game.isCompleted

\* MakeGuess: the canonical form of the submitted word
Canonical(rawWord) == ToUpper(TrimSpace(rawWord))

\* a length check that only refuses words that are too long
WrongLength_TooLongOnly(guessWord) == Len(guessWord) > config.WordLength

\* MakeGuess: the length check on the canonical word
WrongLength(guessWord) == Len(guessWord) # config.WordLength

\* MakeGuess: the remaining-guesses check
NoRemainingGuesses(game) == game.guessCount >= game.maxGuesses

\* guess numbers counted from 0
NextGuessNumber_ZeroBased(game) == game.guessCount

\* MakeGuess: the number of the guess to record
NextGuessNumber(game) == game.guessCount + 1

\* a win that does not complete the game
CompletedAfter_ExhaustionOnly(isWin, guessCount, maxGuesses) ==
  guessCount >= maxGuesses

\* a game that only a win completes
CompletedAfter_WinOnly(isWin, guessCount, maxGuesses) == isWin

\* completion one guess late
CompletedAfter_OffByOne(isWin, guessCount, maxGuesses) ==
  isWin \/ guessCount > maxGuesses

\* a game that no guess completes
CompletedAfter_Never(isWin, guessCount, maxGuesses) == FALSE

\* MakeGuess: game.IsCompleted after the guess
CompletedAfter(isWin, guessCount, maxGuesses) ==
  isWin \/ guessCount >= maxGuesses

\* the stamp set by every guess
StampCompletedAt_Always(game, isCompleted, now) == now

\* a completion that is never stamped
StampCompletedAt_Never(game, isCompleted, now) == game.completedAt

\* MakeGuess: game.CompletedAt after the guess
StampCompletedAt(game, isCompleted, now) ==
  IF isCompleted THEN now ELSE game.completedAt

\* Game.IsGameComplete
IsGameComplete(game) == game.isWon \/ game.guessCount >= game.maxGuesses

\* an update that leaves the guess count as it was loaded
UpdatedGame_CountKept(game, guessWord, now) ==
  LET guessNumber == NextGuessNumber(game)
      isWin == guessWord = game.targetWord
      isCompleted == CompletedAfter(isWin, guessNumber, game.maxGuesses)
  IN  [game EXCEPT !.isWon = isWin,
                   !.isCompleted = isCompleted,
                   !.completedAt = StampCompletedAt(game, isCompleted, now)]

\* MakeGuess: the loaded game after "Update game state"
UpdatedGame(game, guessWord, now) ==
  LET guessNumber == NextGuessNumber(game)
      isWin == guessWord = game.targetWord
      isCompleted == CompletedAfter(isWin, guessNumber, game.maxGuesses)
  IN  [game EXCEPT !.guessCount = guessNumber,
                   !.isWon = isWin,
                   !.isCompleted = isCompleted,
                   !.completedAt = StampCompletedAt(game, isCompleted, now)]

\* a message that asks for completion before it asks for the win
Message_CompletedFirst(game) ==
  IF game.isCompleted THEN <<"over", game.targetWord>>
  ELSE IF game.isWon THEN <<"won", game.guessCount>>
  ELSE <<"remaining", game.maxGuesses - game.guessCount>>

\* MakeGuess: the response message, as its kind and the value it carries
Message(game) ==
  IF game.isWon THEN <<"won", game.guessCount>>
  ELSE IF game.isCompleted THEN <<"over", game.targetWord>>
  ELSE <<"remaining", game.maxGuesses - game.guessCount>>

\* the requests whose call has made a store call and has not returned
Running == {q \in Procs : pc[q] \in {"create_guess", "update_game", "get_guesses"}}

\* a call of p starts: what that does to clean
BeginClean(p) ==
  [q \in Procs |->
     IF q = p THEN faults = MaxFaults /\ Running \subseteq {p}
     ELSE IF q \in Running THEN FALSE ELSE clean[q]]

\* a request p is received: the races it was part of are over
EndRace(p) ==
  [q \in Procs |->
     IF q = p \/ race[q].rivals \ {p} = {} THEN NoRace
     ELSE [race[q] EXCEPT !.rivals = @ \ {p}]]

\* the call of p issues CreateGuess for guessNumber: the requests it races
BeginRace(p, guessNumber) ==
  LET rivals == {q \in Procs \ {p} : /\ pc[q] = "create_guess"
                                      /\ call[q].gameID = call[p].gameID}
  IN  [race EXCEPT ![p] =
         IF rivals = {} THEN NoRace
         ELSE [rivals |-> rivals, gameID |-> call[p].gameID,
               guessNumber |-> guessNumber]]

\* the call of p returns r
Return(p, r) ==
  /\ pc' = [pc EXCEPT ![p] = "idle"]
  /\ call' = [call EXCEPT ![p] = NoCall]
  /\ ret' = [ret EXCEPT ![p] = r]

\* MakeGuess of p returns the error err, which makeGuessHandler answers
MakeGuessError(p, err) ==
  Return(p, [NoRet EXCEPT !.op = "MakeGuess", !.err = err,
                          !.status = makeGuessStatus(err)])

\* CreateNewGame of p returns the error err, which createGameHandler answers
CreateNewGameError(p, err) ==
  Return(p, [NoRet EXCEPT !.op = "CreateNewGame", !.err = err,
                          !.status = createGameStatus(err)])

\* createGameHandler receives a request, the games table being allowed to
\* grow to limit rows
ReceiveCreateGame(p, limit) ==
  /\ pc[p] = "idle"
  /\ Len(games) + Cardinality({q \in Procs : pc[q] = "create_game"}) < limit
  /\ pc' = [pc EXCEPT ![p] = "create_game"]
  /\ call' = [call EXCEPT ![p] = NoCall]
  /\ ret' = [ret EXCEPT ![p] = NoRet]
  /\ race' = EndRace(p)
  /\ UNCHANGED <<eval, reload, query, config, wordList, games, guesses, clock, faults, clean>>

\* createGameHandler receives a request
createGameHandler(p) == ReceiveCreateGame(p, MaxGames)

\* createGameHandler receives a request, in a run that plays several games
createGameHandlerSeveral(p) == ReceiveCreateGame(p, MaxGamesSeveral)

\* makeGuessHandler receives a request with a non-empty guess_word
makeGuessHandler(p, gameID, rawWord) ==
  /\ pc[p] = "idle"
  /\ rawWord # <<>>
  /\ pc' = [pc EXCEPT ![p] = "get_game"]
  /\ call' = [call EXCEPT ![p] =
                [NoCall EXCEPT !.gameID = gameID, !.rawWord = rawWord]]
  /\ ret' = [ret EXCEPT ![p] = NoRet]
  /\ race' = EndRace(p)
  /\ UNCHANGED <<eval, reload, query, config, wordList, games, guesses, clock, faults, clean>>

\* GameService.CreateNewGame, with its one store call
CreateNewGame(p) ==
  /\ pc[p] = "create_game"
  /\ clean' = [BeginClean(p) EXCEPT ![p] = FALSE]
  /\ IF Len(FiveLetterWords(wordList)) = 0
     THEN /\ CreateNewGameError(p, <<"no five-letter words available">>)
          /\ UNCHANGED <<games, faults>>
     ELSE \E word \in RandomWord(wordList), fail \in FaultChoices :
            LET targetWord == ToUpper(word)
                game == CreateGame(targetWord, config.MaxGuesses)
            IN  IF fail \/ ~TargetWordFits(targetWord)
                THEN /\ CreateNewGameError(p, <<"failed to create game",
                                                "failed to create game",
                                                DriverError>>)
                     /\ faults' = IF fail THEN faults + 1 ELSE faults
                     /\ UNCHANGED games
                ELSE /\ games' = Append(games, game)
                     /\ Return(p, [NoRet EXCEPT
                                     !.op = "CreateNewGame",
                                     !.game = game,
                                     !.status = createGameStatus(NoError)])
                     /\ UNCHANGED faults
  /\ UNCHANGED <<eval, reload, query, config, wordList, guesses, clock, race>>

\* checks that look at the word before they look at the game
MakeGuessChecks_WordFirst(game, guessWord) ==
  IF WrongLength(guessWord) THEN <<"guess must be N letters long">>
  ELSE IF ~Contains(wordList, guessWord) THEN <<"is not a valid word">>
  ELSE IF IsCompletedCheck(game) THEN <<"game is already completed">>
  ELSE IF NoRemainingGuesses(game) THEN <<"no remaining guesses">>
  ELSE NoError

\* GameService.MakeGuess: the checks on the loaded game and the canonical
\* word, in their order; the error of the first that fails
MakeGuessChecks(game, guessWord) ==
  IF IsCompletedCheck(game) THEN <<"game is already completed">>
  ELSE IF WrongLength(guessWord) THEN <<"guess must be N letters long">>
  ELSE IF ~Contains(wordList, guessWord) THEN <<"is not a valid word">>
  ELSE IF NoRemainingGuesses(game) THEN <<"no remaining guesses">>
  ELSE NoError

\* GameService.MakeGuess up to its first write: GetGame and the checks
MakeGuessGetGame(p) ==
  /\ pc[p] = "get_game"
  /\ LET gameID == call[p].gameID
     IN  \E fail \in FaultChoices :
           IF fail
           THEN /\ MakeGuessError(p, <<"failed to get game",
                                       "failed to get game", DriverError>>)
                /\ faults' = faults + 1
                /\ clean' = [BeginClean(p) EXCEPT ![p] = FALSE]
           ELSE /\ UNCHANGED faults
                /\ IF gameID \notin DOMAIN games
                   THEN /\ MakeGuessError(p, <<"failed to get game",
                                               "game not found">>)
                        /\ clean' = [BeginClean(p) EXCEPT ![p] = FALSE]
                   ELSE LET game == games[gameID]
                            guessWord == Canonical(call[p].rawWord)
                            err == MakeGuessChecks(game, guessWord)
                        IN  IF err # NoError
                            THEN /\ MakeGuessError(p, err)
                                 /\ clean' = [BeginClean(p) EXCEPT ![p] = FALSE]
                            ELSE /\ pc' = [pc EXCEPT ![p] = "create_guess"]
                                 /\ call' = [call EXCEPT ![p].guessWord = guessWord,
                                                         ![p].game = game]
                                 /\ clean' = BeginClean(p)
                                 /\ UNCHANGED ret
  /\ UNCHANGED <<eval, reload, query, config, wordList, games, guesses, clock, race>>

\* GameService.MakeGuess: "Evaluate the guess" and "Create the guess record"
MakeGuessCreateGuess(p) ==
  /\ pc[p] = "create_guess"
  /\ race' = BeginRace(p, NextGuessNumber(call[p].game))
  /\ LET c == call[p]
         result == EvaluateGuess(c.guessWord, c.game.targetWord)
         guessNumber == NextGuessNumber(c.game)
     IN  \E fail \in FaultChoices :
           IF fail
           THEN /\ MakeGuessError(p, <<"failed to save guess",
                                       "failed to create guess", DriverError>>)
                /\ faults' = faults + 1
                /\ clean' = [clean EXCEPT ![p] = FALSE]
                /\ UNCHANGED guesses
           ELSE IF UniqueViolation(guesses, c.gameID, guessNumber)
           THEN /\ MakeGuessError(p, <<"failed to save guess",
                                       "guess number already exists">>)
                /\ clean' = [clean EXCEPT ![p] = FALSE]
                /\ UNCHANGED <<faults, guesses>>
           ELSE /\ guesses' = CreateGuess(guesses, c.gameID, c.guessWord,
                                          guessNumber, result)
                /\ pc' = [pc EXCEPT ![p] = "update_game"]
                /\ UNCHANGED <<faults, call, ret, clean>>
  /\ UNCHANGED <<eval, reload, query, config, wordList, games, clock>>

\* GameService.MakeGuess: "Update game state" and "Save updated game"
MakeGuessUpdateGame(p) ==
  /\ pc[p] = "update_game"
  /\ LET c == call[p]
         game == UpdatedGame(c.game, c.guessWord, clock)
     IN  /\ clock' = IF game.isCompleted THEN clock + 1 ELSE clock
         /\ \E fail \in FaultChoices :
              IF fail
              THEN /\ games' = FailedUpdateGame(games, game)
                   /\ MakeGuessError(p, <<"failed to update game",
                                          "failed to update game", DriverError>>)
                   /\ faults' = faults + 1
                   /\ clean' = [clean EXCEPT ![p] = FALSE]
              ELSE /\ games' = UpdateGame(games, game)
                   /\ pc' = [pc EXCEPT ![p] = "get_guesses"]
                   /\ call' = [call EXCEPT ![p].game = game]
                   /\ UNCHANGED <<faults, ret, clean>>
  /\ UNCHANGED <<eval, reload, query, config, wordList, guesses, race>>

\* GameService.MakeGuess: "Get all guesses for response" and the response
MakeGuessGetGuesses(p) ==
  /\ pc[p] = "get_guesses"
  /\ clean' = [clean EXCEPT ![p] = FALSE]
  /\ LET c == call[p]
     IN  \E fail \in FaultChoices :
           IF fail
           THEN /\ MakeGuessError(p, <<"failed to get guesses",
                                       "failed to get guesses", DriverError>>)
                /\ faults' = faults + 1
           ELSE /\ Return(p, [NoRet EXCEPT
                                !.op = "MakeGuess",
                                !.game = c.game,
                                !.guesses = GetGuessesByGameID(guesses, c.gameID),
                                !.message = Message(c.game),
                                !.status = makeGuessStatus(NoError)])
                /\ UNCHANGED faults
  /\ UNCHANGED <<eval, reload, query, config, wordList, games, guesses, clock, race>>

Next ==
  \E p \in Procs :
     \/ createGameHandler(p)
     \/ \E gameID \in GameIDs, rawWord \in GuessInputs :
           makeGuessHandler(p, gameID, rawWord)
     \/ CreateNewGame(p)
     \/ MakeGuessGetGame(p)
     \/ MakeGuessCreateGuess(p)
     \/ MakeGuessUpdateGame(p)
     \/ MakeGuessGetGuesses(p)

Spec == Init /\ [][Next]_vars

\* a server started with MAX_GUESSES = 1 and both word files filled
InitSeveral ==
  /\ Init
  /\ config.MaxGuesses = 1
  /\ wordList.validWordSet # {}
  /\ wordList.targetWordSet # {}

\* words a client submits in a run that plays several games
GuessInputsSeveral ==
  { <<"h","e","l","l","o">>, <<" ","W","O","R","L","D"," ">> }

NextSeveral ==
  \E p \in Procs :
     \/ createGameHandlerSeveral(p)
     \/ \E gameID \in 1..MaxGamesSeveral, rawWord \in GuessInputsSeveral :
           makeGuessHandler(p, gameID, rawWord)
     \/ CreateNewGame(p)
     \/ MakeGuessGetGame(p)
     \/ MakeGuessCreateGuess(p)
     \/ MakeGuessUpdateGame(p)
     \/ MakeGuessGetGuesses(p)

\* the server playing several games
SpecSeveral == InitSeveral /\ [][NextSeveral]_vars

(* ------------------------ the word list under Reload ------------------ *)
\* the variables no method of WordList touches
serviceVars ==
  <<config, games, guesses, clock, faults, pc, call, ret, race, clean, eval>>

hi == <<"h","i">>

\* what the two word files may hold when Reload is called
FileChoices ==
  {Unreadable, File(<<hello, blank, World>>), File(<<hello>>),
   File(<<World, blank, hi>>)}

\* words asked of Contains
QueryWords ==
  {hello, <<"W","O","R","L","D">>, <<"H","i">>, <<"z","z","z","z","z">>}

\* lengths asked of WordsOfLength
QueryLengths == {2, 5}

ErrOpenValid == <<"failed to open validation word file", "open failed">>
ErrOpenTarget == <<"failed to open target word file", "open failed">>

InitCorpus == Init /\ config.MaxGuesses = 1

\* WordList.Reload is called, the files holding validFile and targetFile
Reload(validFile, targetFile) ==
  /\ reload.stage = "idle"
  /\ reload.count < MaxReloads
  /\ reload' = [stage |-> "loadValidWords", valid |-> validFile,
                target |-> targetFile, rest |-> <<>>, before |-> wordList,
                err |-> NoError, count |-> reload.count + 1]
  /\ UNCHANGED <<wordList, query>>
  /\ UNCHANGED serviceVars

\* loadValidWords opens its file and, when that succeeds, clears the
\* validation words
openValidFile ==
  /\ reload.stage = "loadValidWords"
  /\ IF reload.valid.readable
     THEN /\ wordList' = [wordList EXCEPT !.validWords = <<>>,
                                          !.validWordSet = {}]
          /\ reload' = [reload EXCEPT !.stage = "scanValid",
                                      !.rest = reload.valid.lines]
     ELSE /\ reload' = [reload EXCEPT !.stage = "idle", !.err = ErrOpenValid]
          /\ UNCHANGED wordList
  /\ UNCHANGED query
  /\ UNCHANGED serviceVars

\* one turn of the scanner loop of loadValidWords, or its end
scanValidLine ==
  /\ reload.stage = "scanValid"
  /\ IF reload.rest # <<>>
     THEN LET words == ScanLine(wordList.validWords, Head(reload.rest))
          IN  /\ wordList' = [wordList EXCEPT !.validWords = words,
                                              !.validWordSet = SeqToSet(words)]
              /\ reload' = [reload EXCEPT !.rest = Tail(reload.rest)]
     ELSE /\ reload' = [reload EXCEPT !.stage = "loadTargetWords"]
          /\ UNCHANGED wordList
  /\ UNCHANGED query
  /\ UNCHANGED serviceVars

\* loadTargetWords opens its file and, when that succeeds, clears the
\* target words
openTargetFile ==
  /\ reload.stage = "loadTargetWords"
  /\ IF reload.target.readable
     THEN /\ wordList' = [wordList EXCEPT !.targetWords = <<>>,
                                          !.targetWordSet = {}]
          /\ reload' = [reload EXCEPT !.stage = "scanTarget",
                                      !.rest = reload.target.lines]
     ELSE /\ reload' = [reload EXCEPT !.stage = "idle", !.err = ErrOpenTarget]
          /\ UNCHANGED wordList
  /\ UNCHANGED query
  /\ UNCHANGED serviceVars

\* one turn of the scanner loop of loadTargetWords, or its end and the
\* return of Reload
scanTargetLine ==
  /\ reload.stage = "scanTarget"
  /\ IF reload.rest # <<>>
     THEN LET words == ScanLine(wordList.targetWords, Head(reload.rest))
          IN  /\ wordList' = [wordList EXCEPT !.targetWords = words,
                                              !.targetWordSet = SeqToSet(words)]
              /\ reload' = [reload EXCEPT !.rest = Tail(reload.rest)]
     ELSE /\ reload' = [reload EXCEPT !.stage = "idle"]
          /\ UNCHANGED wordList
  /\ UNCHANGED query
  /\ UNCHANGED serviceVars

\* the calls of the readers on the word list wl and what they return
ContainsCall(wl, word) ==
  [op |-> "Contains", word |-> word, found |-> Contains(wl, word)]
RandomWordCalls(wl) ==
  {[op |-> "RandomWord", picked |-> word] : word \in RandomWord(wl)}
SizeCall(wl) == [op |-> "Size", size |-> Size(wl)]
TargetWordsSizeCall(wl) ==
  [op |-> "TargetWordsSize", size |-> TargetWordsSize(wl)]
WordsOfLengthCall(wl, length) ==
  [op |-> "WordsOfLength", length |-> length,
   words |-> WordsOfLength(wl, length)]

\* the readers, run by other goroutines than Reload
ReadContains(word) ==
  /\ query' = ContainsCall(wordList, word)
  /\ UNCHANGED <<wordList, reload>>
  /\ UNCHANGED serviceVars

ReadRandomWord ==
  /\ query' \in RandomWordCalls(wordList)
  /\ UNCHANGED <<wordList, reload>>
  /\ UNCHANGED serviceVars

ReadSize ==
  /\ query' = SizeCall(wordList)
  /\ UNCHANGED <<wordList, reload>>
  /\ UNCHANGED serviceVars

ReadTargetWordsSize ==
  /\ query' = TargetWordsSizeCall(wordList)
  /\ UNCHANGED <<wordList, reload>>
  /\ UNCHANGED serviceVars

ReadWordsOfLength(length) ==
  /\ query' = WordsOfLengthCall(wordList, length)
  /\ UNCHANGED <<wordList, reload>>
  /\ UNCHANGED serviceVars

NextCorpus ==
  \/ \E validFile \in FileChoices, targetFile \in FileChoices :
        Reload(validFile, targetFile)
  \/ openValidFile
  \/ scanValidLine
  \/ openTargetFile
  \/ scanTargetLine
  \/ \E word \in QueryWords : ReadContains(word)
  \/ ReadRandomWord
  \/ ReadSize
  \/ ReadTargetWordsSize
  \/ \E length \in QueryLengths : ReadWordsOfLength(length)

SpecCorpus == InitCorpus /\ [][NextCorpus]_vars

(* ------------------ target words of several lengths -------------------- *)
\* a deployment whose target file holds a five-letter and a two-letter word
InitMixedTargets ==
  /\ config = [MaxGuesses |-> 2, WordLength |-> DefaultWordLength]
  /\ wordList = NewWordList(<<hello, blank, World>>, <<hello, hi>>)
  /\ reload = Loaded(File(<<hello, blank, World>>), File(<<hello, hi>>),
                     EmptyWordList, NoError, 0)
  /\ InitStore
  /\ query = NoQuery
  /\ eval = NoEval

SpecMixedTargets == InitMixedTargets /\ [][Next]_vars

(* ------------------ games played while the store answers --------------- *)
\* the server after start, with a validation word to guess and a store
\* that fails no call
InitLive ==
  /\ \E d \in Deployments :
        /\ d.valid # <<>>
        /\ config = [MaxGuesses |-> d.maxGuesses, WordLength |-> DefaultWordLength]
        /\ wordList = NewWordList(d.valid, d.target)
        /\ reload = Loaded(File(d.valid), File(d.target), EmptyWordList,
                           NoError, 0)
  /\ games = <<>>
  /\ guesses = <<>>
  /\ clock = 1
  /\ faults = MaxFaults
  /\ pc = [p \in Procs |-> "idle"]
  /\ call = [p \in Procs |-> NoCall]
  /\ ret = [p \in Procs |-> NoRet]
  /\ race = [p \in Procs |-> NoRace]
  /\ clean = [p \in Procs |-> FALSE]
  /\ query = NoQuery
  /\ eval = NoEval

\* a call that has started takes its next step
ServiceStep(p) ==
  \/ CreateNewGame(p)
  \/ MakeGuessGetGame(p)
  \/ MakeGuessCreateGuess(p)
  \/ MakeGuessUpdateGame(p)
  \/ MakeGuessGetGuesses(p)

\* the words a client may submit that pass the checks of length and
\* membership
ValidGuessInputs ==
  {rawWord \in GuessInputs :
     /\ ~WrongLength(Canonical(rawWord))
     /\ Contains(wordList, Canonical(rawWord))}

\* a client submits a valid guess for the game
SubmitValidGuess(gameID) ==
  \E p \in Procs, rawWord \in ValidGuessInputs :
     makeGuessHandler(p, gameID, rawWord)

\* every call runs to its end, and valid guesses keep being submitted for
\* every game
SpecLive ==
  /\ InitLive
  /\ [][Next]_vars
  /\ \A p \in Procs : WF_vars(ServiceStep(p))
  /\ \A gameID \in GameIDs : SF_vars(SubmitValidGuess(gameID))

(* ------------------------ the read-only operations --------------------- *)
\* GetRecentGames: the largest limit passed on, and the limit used instead
\* of one out of range
MaxRecentLimit == 100
DefaultRecentLimit == 10

\* a clamp that also passes limit 0 and limits above 100 on
RecentLimit_Unclamped(limit) ==
  IF limit < 0 THEN DefaultRecentLimit ELSE limit

\* GameService.GetRecentGames: the limit handed to the store
RecentLimit(limit) ==
  IF limit <= 0 \/ limit > MaxRecentLimit THEN DefaultRecentLimit ELSE limit

\* GameRepository.GetRecentGames: ORDER BY created_at DESC LIMIT limit
RecentRows(rows, limit) ==
  LET n == IF limit < Len(rows) THEN limit ELSE Len(rows)
  IN  [k \in 1..n |-> rows[Len(rows) + 1 - k]]

\* a check of the word as it is given
ValidateWord_Untrimmed(word) ==
  IF Len(word) # config.WordLength THEN FALSE ELSE Contains(wordList, word)

\* GameService.ValidateWord
ValidateWord(word) ==
  LET trimmed == TrimSpace(word)
  IN  IF Len(trimmed) # config.WordLength THEN FALSE
      ELSE Contains(wordList, trimmed)

\* GameService.GetGameStats: the map returned
GetGameStats ==
  [total_words |-> Size(wordList),
   five_letter_words |-> Len(FiveLetterWords(wordList)),
   max_guesses |-> config.MaxGuesses,
   word_length |-> config.WordLength]

\* words asked of ValidateWord
ValidateInputs ==
  {hello, <<" ","W","o","r","l","d"," ">>, <<"z","z","z","z","z">>,
   hi, <<"h","e","l","l","o","s">>, <<>>}

\* limits asked of GetRecentGames
LimitInputs == {-1, 0, 1, 2, 10, 100, 101}

InitQueries == Init

\* a call of GameService.ValidateWord(word)
CallValidateWord(word) ==
  /\ query' = [op |-> "ValidateWord", word |-> word,
               found |-> ValidateWord(word)]
  /\ UNCHANGED <<config, wordList, games, guesses, clock, faults, pc, call,
                 ret, race, clean, eval, reload>>

\* a call of GameService.GetRecentGames(limit)
CallGetRecentGames(limit) ==
  /\ \E fail \in FaultChoices :
        IF fail
        THEN /\ query' = [op |-> "GetRecentGames", limit |-> limit,
                          passed |-> RecentLimit(limit), rows |-> <<>>,
                          err |-> <<"failed to get recent games", DriverError>>]
             /\ faults' = faults + 1
        ELSE /\ query' = [op |-> "GetRecentGames", limit |-> limit,
                          passed |-> RecentLimit(limit),
                          rows |-> RecentRows(games, RecentLimit(limit)),
                          err |-> NoError]
             /\ UNCHANGED faults
  /\ UNCHANGED <<config, wordList, games, guesses, clock, pc, call, ret,
                 race, clean, eval, reload>>

\* a call of GameService.GetGameStats()
CallGetGameStats ==
  /\ query' = [op |-> "GetGameStats", stats |-> GetGameStats]
  /\ UNCHANGED <<config, wordList, games, guesses, clock, faults, pc, call,
                 ret, race, clean, eval, reload>>

NextQueries ==
  \/ \E p \in Procs :
        \/ createGameHandlerSeveral(p)
        \/ CreateNewGame(p)
  \/ \E word \in ValidateInputs : CallValidateWord(word)
  \/ \E limit \in LimitInputs : CallGetRecentGames(limit)
  \/ CallGetGameStats

SpecQueries == InitQueries /\ [][NextQueries]_vars

(* ------------------------ EvaluateGuess on its own --------------------- *)
EvalLetters == {"a", "A", "b", "B"}

\* the words over EvalLetters of at most MaxEvalLen letters
EvalWords ==
  UNION {[1..n -> EvalLetters] : n \in 0..MaxEvalLen}

WORLD == <<"W","O","R","L","D">>
HELLO == <<"H","E","L","L","O">>
LLAMA == <<"L","L","A","M","A">>
SPEED == <<"S","P","E","E","D">>
ERASE == <<"E","R","A","S","E">>

\* the (guess, target) pairs of the scenarios of TestEvaluateGuess
EvalScenarios ==
  { <<WORLD, HELLO>>, <<LLAMA, HELLO>>, <<SPEED, ERASE>>,
    <<hello, HELLO>>, <<HELLO, hello>>, <<HELLO, HELLO>>, <<hello, hello>> }

EvalInputs == (EvalWords \X EvalWords) \cup EvalScenarios

InitEvaluate ==
  /\ InitService
  /\ config.MaxGuesses = 1
  /\ wordList.validWordSet # {}
  /\ wordList.targetWordSet # {}
  /\ \E input \in EvalInputs :
        eval = [guess |-> input[1], target |-> input[2], result |-> NilResult,
                applied |-> FALSE]

\* a call of EvaluateGuess(eval.guess, eval.target)
Evaluate ==
  /\ ~eval.applied
  /\ eval' = [eval EXCEPT !.result = EvaluateGuess(eval.guess, eval.target),
                          !.applied = TRUE]
  /\ UNCHANGED <<config, wordList, games, guesses, clock, faults, pc, call,
                 ret, race, clean, reload, query>>

NextEvaluate == Evaluate

SpecEvaluate == InitEvaluate /\ [][NextEvaluate]_vars

TypeOK ==
  /\ faults \in 0..MaxFaults
  /\ Len(games) <= MaxGames
  /\ \A p \in Procs :
       pc[p] \in {"idle", "create_game", "get_game", "create_guess",
                  "update_game", "get_guesses"}

(* ------------------------------ properties ----------------------------- *)
ErrAlreadyCompleted == <<"game is already completed">>
ErrGetGameStore == <<"failed to get game", "failed to get game", DriverError>>
ErrDuplicateGuess == <<"failed to save guess", "guess number already exists">>
ErrSaveGuessStore == <<"failed to save guess", "failed to create guess", DriverError>>
ErrUpdateGameStore == <<"failed to update game", "failed to update game", DriverError>>

\* MakeGuess of p returns in this step without an error, its guess being
\* the target word of the game
WinAccepted(p) ==
  /\ pc[p] = "get_guesses" /\ pc'[p] = "idle"
  /\ ret'[p].err = NoError
  /\ call[p].guessWord = call[p].game.targetWord

\* MakeGuess of p starts in this step on a game persisted as won
StartsOnWonGame(p) ==
  /\ pc[p] = "get_game" /\ pc'[p] # "get_game"
  /\ call[p].gameID \in DOMAIN games
  /\ games[call[p].gameID].isWon

PersistedAsWon(gameID) ==
  /\ games'[gameID].isWon
  /\ games'[gameID].isCompleted
  /\ games'[gameID].completedAt # NoTime

\* C1 as stated: when a MakeGuess of the target word is accepted the
\* persisted game is won, completed and stamped, and every MakeGuess that
\* starts on a won game returns "game is already completed" and writes no
\* guess row.
C1_LaterGuessAlwaysAlreadyCompleted ==
  [][\A p \in Procs :
       /\ WinAccepted(p) => PersistedAsWon(call[p].gameID)
       /\ StartsOnWonGame(p) =>
            /\ pc'[p] = "idle"
            /\ ret'[p].err = ErrAlreadyCompleted
            /\ guesses' = guesses]_vars

\* C1 amended: when a MakeGuess of the target word is accepted the persisted
\* game is won, completed and stamped, and every MakeGuess that starts on a
\* won game fails and writes no guess row: with "game is already completed"
\* when its GetGame succeeds, with the error of GetGame otherwise.
C1_NoGuessAfterWin ==
  [][\A p \in Procs :
       /\ WinAccepted(p) => PersistedAsWon(call[p].gameID)
       /\ StartsOnWonGame(p) =>
            /\ pc'[p] = "idle"
            /\ ret'[p].err \in {ErrAlreadyCompleted, ErrGetGameStore}
            /\ guesses' = guesses]_vars

\* a MakeGuess has been refused on a game that a guess won
C1_Witness ==
  \E p \in Procs, g \in DOMAIN games :
     /\ ret[p].op = "MakeGuess" /\ ret[p].err = ErrAlreadyCompleted
     /\ games[g].isWon /\ games[g].isCompleted /\ games[g].completedAt # NoTime

\* no guess row of the game holds its target word
NoWinningGuess(gameID) ==
  \A i \in DOMAIN guesses :
     guesses[i].gameID = gameID => guesses[i].guessWord # games[gameID].targetWord

\* C2 as stated: for every MAX_GUESSES, a game whose guessCount has reached
\* maxGuesses with no winning guess is persisted completed and not won.
C2_ExhaustedIsLost ==
  \A g \in DOMAIN games :
     (games[g].guessCount >= games[g].maxGuesses /\ NoWinningGuess(g))
       => (games[g].isCompleted /\ ~games[g].isWon)

\* C2 amended: for every MAX_GUESSES >= 1, a game whose guessCount has
\* reached maxGuesses with no winning guess is persisted completed and not
\* won.
C2_ExhaustedIsLostPositive ==
  \A g \in DOMAIN games :
     (/\ games[g].maxGuesses >= 1
      /\ games[g].guessCount >= games[g].maxGuesses
      /\ NoWinningGuess(g))
       => (games[g].isCompleted /\ ~games[g].isWon)

\* a game has used its two guesses without a win
C2_Witness ==
  \E g \in DOMAIN games :
     /\ games[g].maxGuesses = 2 /\ games[g].guessCount = 2
     /\ NoWinningGuess(g)
     /\ games[g].isCompleted /\ ~games[g].isWon

\* C3: in every step the persisted guessCount of a game does not decrease
\* and its isWon and isCompleted flags, once true, stay true.
C3_Monotonic ==
  [][\A g \in DOMAIN games :
       /\ games'[g].guessCount >= games[g].guessCount
       /\ games[g].isWon => games'[g].isWon
       /\ games[g].isCompleted => games'[g].isCompleted]_vars

\* a won game whose guessCount is below maxGuesses, with a request running
\* on it that loaded it before the win
C3_Witness ==
  \E g \in DOMAIN games, p \in Procs :
     /\ games[g].isWon /\ games[g].guessCount < games[g].maxGuesses
     /\ pc[p] = "create_guess" /\ call[p].gameID = g
     /\ ~call[p].game.isWon

\* C4: completedAt of a game is unset while the game is not completed, is
\* set in the MakeGuess step that completes the game, and never changes
\* once set.
C4_CompletedAtOnce ==
  [][/\ \A g \in DOMAIN games' :
          ~games'[g].isCompleted => games'[g].completedAt = NoTime
     /\ \A g \in DOMAIN games :
          /\ (~games[g].isCompleted /\ games'[g].isCompleted) =>
               /\ games'[g].completedAt # NoTime
               /\ \E p \in Procs : /\ pc[p] = "update_game"
                                   /\ pc'[p] = "get_guesses"
                                   /\ call[p].gameID = g
          /\ games[g].completedAt # NoTime =>
               games'[g].completedAt = games[g].completedAt]_vars

\* a game completed by exhaustion, stamped at an earlier reading of the
\* clock than the present one, on which a later MakeGuess has been refused
C4_Witness ==
  \E g \in DOMAIN games, p \in Procs :
     /\ games[g].isCompleted /\ ~games[g].isWon
     /\ games[g].completedAt # NoTime /\ games[g].completedAt < clock
     /\ ret[p].err = ErrAlreadyCompleted

\* C5: the guess rows of every game carry the numbers 1..n, each once.
C5_GuessNumbersContiguous ==
  \A g \in DOMAIN games :
     LET rows == GuessesOf(guesses, g)
     IN  /\ {rows[i].guessNumber : i \in DOMAIN rows} = 1..Len(rows)
         /\ \A i, j \in DOMAIN rows :
               rows[i].guessNumber = rows[j].guessNumber => i = j

\* a game holds two guess rows and a concurrent CreateGuess was refused
C5_Witness ==
  \E g \in DOMAIN games, p \in Procs :
     /\ Len(GuessesOf(guesses, g)) = 2
     /\ ret[p].err = ErrDuplicateGuess

\* the calls of p and q raced on one game (each had loaded the game when
\* neither had yet written its guess) and both have returned
RaceOver(p, q) ==
  /\ q \in race[p].rivals
  /\ pc[p] = "idle" /\ pc[q] = "idle"

\* of the two calls, w succeeded and the other was refused its write, and
\* the rows of the game are the ones w returned
OneWinner(p, q, w) ==
  LET g == race[p].gameID
      l == CHOOSE x \in {p, q} : x # w
      rows == GetGuessesByGameID(guesses, g)
  IN  /\ ret[w].err = NoError
      /\ ret[l].err = ErrDuplicateGuess
      /\ games[g] = ret[w].game
      /\ rows = ret[w].guesses
      /\ Len(rows) = games[g].guessCount
      /\ \A i \in DOMAIN rows : rows[i].guessNumber = i

C7_DuplicateIsRetryableConflict ==
  \A p \in Procs :
     ret[p].err = ErrDuplicateGuess =>
        /\ ret[p].status < StatusInternalServerError
        /\ ret[p].status # makeGuessStatus(ErrSaveGuessStore)

\* C8 as stated: a MakeGuess with a valid word that starts when the store
\* has stopped failing, on a game it finds open, and that runs alone,
\* returns without an error.
C8_RecoversAfterStoreFailure ==
  [][\A p \in Procs :
       (clean[p] /\ p \in Running /\ pc'[p] = "idle")
          => ret'[p].err = NoError]_vars

\* MakeGuess of p returns in this step from its UpdateGame call
UpdateGameFailed(p) ==
  pc[p] = "update_game" /\ pc'[p] = "idle"

C10_NewGameIsFresh ==
  \A p \in Procs :
     (ret[p].op = "CreateNewGame" /\ ret[p].err = NoError) =>
        /\ ret[p].game.guessCount = 0
        /\ ~ret[p].game.isWon
        /\ ~ret[p].game.isCompleted
        /\ ret[p].game.completedAt = NoTime
        /\ ret[p].game.maxGuesses = config.MaxGuesses
        /\ ret[p].game.targetWord \in {ToUpper(w) : w \in wordList.targetWordSet}

ErrNoWords == <<"no five-letter words available">>
ErrInvalidLength == <<"guess must be N letters long">>
ErrNotRecognized == <<"is not a valid word">>
ErrNoRemaining == <<"no remaining guesses">>
ErrGameNotFound == <<"failed to get game", "game not found">>

\* C11 as stated: while the target word set is empty no game is persisted
\* and every CreateNewGame that has returned has failed with the
\* no-words error.
C11_EmptyTargetSetRefused ==
  wordList.targetWordSet = {} =>
     /\ games = <<>>
     /\ \A p \in Procs :
           ret[p].op = "CreateNewGame" => ret[p].err = ErrNoWords

\* the errors of the validation steps of MakeGuess
ValidationErrors ==
  {ErrAlreadyCompleted, ErrInvalidLength, ErrNotRecognized, ErrNoRemaining}

\* MakeGuess of p takes its first step on a game that exists
OnLoadedGame(p) ==
  /\ pc[p] = "get_game" /\ pc'[p] # "get_game"
  /\ call[p].gameID \in DOMAIN games

\* a validation step refuses the arguments of the call of p
MustFailValidation(p) ==
  LET game == games[call[p].gameID]
      word == ToUpper(TrimSpace(call[p].rawWord))
  IN  \/ game.isCompleted
      \/ Len(word) # config.WordLength
      \/ ToLower(word) \notin wordList.validWordSet
      \/ game.guessCount >= game.maxGuesses

\* C12: a MakeGuess that a validation step refuses returns an error in the
\* step that loads the game, and a MakeGuess that returns a validation
\* error has written nothing: the guess rows and the game rows are as they
\* were.
C12_ValidationFailureWritesNothing ==
  [][\A p \in Procs :
       /\ (OnLoadedGame(p) /\ MustFailValidation(p)) =>
             /\ pc'[p] = "idle"
             /\ ret'[p].err \in ValidationErrors \cup {ErrGetGameStore}
       /\ (pc[p] = "get_game" /\ pc'[p] = "idle"
           /\ ret'[p].err \in ValidationErrors) =>
             /\ guesses' = guesses
             /\ games' = games]_vars

\* an unrecognised word was refused on a game that holds one guess
C12_Witness ==
  \E p \in Procs, g \in DOMAIN games :
     /\ ret[p].err = ErrNotRecognized
     /\ games[g].guessCount = 1 /\ ~games[g].isCompleted
     /\ Len(guesses) = 1

\* MakeGuess of p takes its first step with a word whose trimmed length is
\* not the configured one
StartsWithWrongLength(p) ==
  /\ pc[p] = "get_game" /\ pc'[p] # "get_game"
  /\ Len(TrimSpace(call[p].rawWord)) # config.WordLength

\* C13 as stated: a MakeGuess with a word of the wrong length fails with
\* the length error without a store call: no store call of it fails, and
\* the rows are as they were.
C13_WrongLengthFailsBeforeStore ==
  [][\A p \in Procs :
       StartsWithWrongLength(p) =>
          /\ pc'[p] = "idle"
          /\ ret'[p].err = ErrInvalidLength
          /\ faults' = faults
          /\ guesses' = guesses /\ games' = games]_vars

\* C13 amended: a MakeGuess with a word of the wrong length always fails,
\* after the load of the game and before any store write: it returns the
\* error of the load, GameAlreadyCompleted or the length error, and the
\* rows are as they were.
C13_WrongLengthFailsBeforeWrite ==
  [][\A p \in Procs :
       StartsWithWrongLength(p) =>
          /\ pc'[p] = "idle"
          /\ ret'[p].err \in {ErrGetGameStore, ErrGameNotFound,
                              ErrAlreadyCompleted, ErrInvalidLength}
          /\ guesses' = guesses /\ games' = games]_vars

\* a word of the wrong length was refused on an open game without guesses
C13_Witness ==
  \E p \in Procs, g \in DOMAIN games :
     /\ ret[p].err = ErrInvalidLength
     /\ ~games[g].isCompleted /\ games[g].guessCount = 0
     /\ guesses = <<>>

\* C14 as stated: no MakeGuess has returned the no-remaining-guesses
\* error, and every game whose guessCount has reached maxGuesses is
\* completed.
C14_NoRemainingIsDead ==
  /\ \A p \in Procs : ret[p].err # ErrNoRemaining
  /\ \A g \in DOMAIN games :
        games[g].guessCount >= games[g].maxGuesses => games[g].isCompleted

\* C14 amended: the same for MAX_GUESSES >= 1.
C14_NoRemainingIsDeadPositive ==
  config.MaxGuesses >= 1 =>
     /\ \A p \in Procs : ret[p].err # ErrNoRemaining
     /\ \A g \in DOMAIN games :
           games[g].guessCount >= games[g].maxGuesses => games[g].isCompleted

\* a game lost at its first and only guess, on which a MakeGuess was
\* refused as completed
C14_Witness ==
  \E p \in Procs, g \in DOMAIN games :
     /\ games[g].maxGuesses = 1 /\ games[g].guessCount = 1
     /\ games[g].isCompleted /\ ~games[g].isWon
     /\ ret[p].err = ErrAlreadyCompleted

\* the call of p takes a step of MakeGuess
MakeGuessStep(p) ==
  /\ pc[p] \in {"get_game", "create_guess", "update_game", "get_guesses"}
  /\ pc'[p] # pc[p]

\* C15: no step changes the id, targetWord, maxGuesses or createdAt of a
\* game, and a step of MakeGuess on a game changes neither the row nor the
\* guess rows of any other game.
C15_MakeGuessFrame ==
  [][/\ \A g \in DOMAIN games :
          /\ g \in DOMAIN games'
          /\ games'[g].id = games[g].id
          /\ games'[g].targetWord = games[g].targetWord
          /\ games'[g].maxGuesses = games[g].maxGuesses
          /\ games'[g].createdAt = games[g].createdAt
     /\ \A p \in Procs :
          MakeGuessStep(p) =>
             \A h \in DOMAIN games \ {call[p].gameID} :
                /\ games'[h] = games[h]
                /\ GuessesOf(guesses', h) = GuessesOf(guesses, h)]_vars

\* two games: the second was played to its end, the first is untouched
C15_Witness ==
  /\ Len(games) = 2
  /\ games[2].guessCount = 1 /\ games[2].isCompleted
  /\ games[1].guessCount = 0 /\ ~games[1].isCompleted
  /\ GuessesOf(guesses, 1) = <<>>
  /\ Len(GuessesOf(guesses, 2)) = 1

\* the statuses of a result, in order
Statuses(result) == [i \in DOMAIN result.items |-> result.items[i].status]

\* C16: EvaluateGuess(w, w) of a non-empty word w is a result of the length
\* of w in which every position has status "correct".
C16_SameWordAllCorrect ==
  (eval.applied /\ eval.guess # <<>> /\ eval.guess = eval.target) =>
     /\ ~eval.result.isNil
     /\ Len(eval.result.items) = Len(eval.guess)
     /\ \A i \in DOMAIN eval.result.items :
           eval.result.items[i].status = "correct"

\* a word of three letters with a repeated letter was evaluated against
\* itself
C16_Witness ==
  /\ eval.applied
  /\ eval.guess = eval.target
  /\ Len(eval.guess) = 3
  /\ eval.guess[1] = eval.guess[3]

\* C17: EvaluateGuess returns the nil result exactly when guess and target
\* differ in length.
C17_NilIffUnequalLength ==
  eval.applied =>
     (eval.result.isNil <=> Len(eval.guess) # Len(eval.target))

\* a guess of two letters was evaluated against a target of three
C17_Witness ==
  /\ eval.applied
  /\ Len(eval.guess) = 2 /\ Len(eval.target) = 3
  /\ eval.result = NilResult

\* the spellings of a word in its own, in upper and in lower case
CaseVariants(word) == {word, ToUpper(word), ToLower(word)}

\* C18: for guess and target of equal length, the result of EvaluateGuess
\* is the result for every spelling of the two arguments in another case.
C18_CaseInsensitive ==
  (eval.applied /\ Len(eval.guess) = Len(eval.target)) =>
     \A g \in CaseVariants(eval.guess), t \in CaseVariants(eval.target) :
        EvaluateGuess(g, t) = eval.result

\* a lower-case guess was evaluated against an upper-case target with
\* which it shares a letter
C18_Witness ==
  /\ eval.applied
  /\ Len(eval.guess) = 3 /\ Len(eval.target) = 3
  /\ eval.guess = ToLower(eval.guess) /\ eval.target = ToUpper(eval.target)
  /\ \E i \in DOMAIN eval.result.items :
        eval.result.items[i].status = "correct"
  /\ \E i \in DOMAIN eval.result.items :
        eval.result.items[i].status = "present"

\* the positions of a result that hold letter with status correct or present
Matched(result, letter) ==
  {i \in DOMAIN result.items :
     /\ result.items[i].letter = letter
     /\ result.items[i].status \in {"correct", "present"}}

\* the positions of a word that hold letter
Occurrences(word, letter) == {i \in DOMAIN word : word[i] = letter}

Observations(wl) ==
  {ContainsCall(wl, word) : word \in QueryWords}
    \cup RandomWordCalls(wl)
    \cup {SizeCall(wl), TargetWordsSizeCall(wl)}
    \cup {WordsOfLengthCall(wl, length) : length \in QueryLengths}

\* the word lists a caller of Reload may take the list to be: the one before
\* the call and, when both files are readable, the one loaded from them
Snapshots(r) ==
  {r.before} \cup
    (IF r.valid.readable /\ r.target.readable
     THEN {loadWords(r.before, r.valid.lines, r.target.lines)}
     ELSE {})

\* a reader returns in this step
ReadStep == query' # query

\* C22: whatever a reader returns, before, during or after a Reload, is what
\* it returns on the word list as it was before the Reload or on the word
\* list loaded from the two files; no reader sees a set partially loaded.
C22_ReadersSeeWholeSets ==
  [][ReadStep => \E wl \in Snapshots(reload) : query' \in Observations(wl)]_vars

\* Reload returns an error in this step
ReloadFails ==
  /\ reload.stage # "idle" /\ reload'.stage = "idle"
  /\ reload'.err # NoError

\* C23: when Reload returns an error, Contains, Size, TargetWordsSize and
\* RandomWord answer on the word list as they did before the call.
C23_FailedReloadKeepsContents ==
  [][ReloadFails =>
       /\ \A word \in QueryWords :
            Contains(wordList', word) = Contains(reload.before, word)
       /\ Size(wordList') = Size(reload.before)
       /\ TargetWordsSize(wordList') = TargetWordsSize(reload.before)
       /\ RandomWord(wordList') = RandomWord(reload.before)]_vars

\* a line that is not blank: some character of it is not white space
NonBlankLine(line) == \E i \in DOMAIN line : ~IsSpace(line[i])

\* the non-blank lines, each trimmed and in lower case
Normalised(lines) ==
  LET kept == SelectSeq(lines, NonBlankLine)
  IN  [i \in DOMAIN kept |-> ToLower(TrimSpace(kept[i]))]

\* the last load or Reload has returned without an error
LoadSucceeded == reload.stage = "idle" /\ reload.err = NoError

\* C24: after a load or Reload that succeeded, the validation words are the
\* non-blank lines of the validation file, trimmed and in lower case, in
\* the order of the file, and nothing of an earlier load is left.
C24_StoredWordsNormalised ==
  LoadSucceeded =>
    /\ wordList.validWords = Normalised(reload.valid.lines)
    /\ wordList.validWordSet = SeqToSet(Normalised(reload.valid.lines))

\* a Reload has succeeded on a file with a blank line and a word written
\* with a capital after a space, and a word of the earlier load is gone
C24_Witness ==
  /\ LoadSucceeded
  /\ reload.count > 0
  /\ reload.valid.lines = <<World, blank, hi>>
  /\ wordList.validWords = <<ToLower(TrimSpace(World)), hi>>
  /\ hello \in reload.before.validWordSet
  /\ hello \notin wordList.validWordSet

\* every spelling of a word in upper- and lower-case letters
LetterCaseVariants(word) ==
  {[i \in DOMAIN word |->
      IF i \in S THEN ToUpperChar(word[i]) ELSE ToLowerChar(word[i])] :
     S \in SUBSET DOMAIN word}

\* the word list wl with other target words
WithTargetWords(wl, words) ==
  [wl EXCEPT !.targetWords = words, !.targetWordSet = SeqToSet(words)]

\* target words other than the loaded ones
OtherTargetWords == {<<>>, <<hello>>, <<hi, <<"w","o","r","l","d">>>>}

\* Contains returns in this step
ContainsReturns == query'.op = "Contains" /\ query' # query

\* C25: Contains(w) returns true exactly when w in lower case is in the
\* validation set; it returns the same for every spelling of w in upper-
\* and lower-case letters, and the same whatever the target words are.
C25_ContainsIsCaseInsensitiveMembership ==
  [][ContainsReturns =>
       /\ query'.found = (ToLower(query'.word) \in wordList.validWordSet)
       /\ \A v \in LetterCaseVariants(query'.word) :
            Contains(wordList, v) = query'.found
       /\ \A words \in OtherTargetWords :
            Contains(WithTargetWords(wordList, words), query'.word)
              = query'.found]_vars

\* Contains has returned true for WORLD, which is stored as world and is
\* no target word
C25_Witness ==
  /\ query.op = "Contains"
  /\ query.word = <<"W","O","R","L","D">>
  /\ query.found
  /\ <<"w","o","r","l","d">> \in wordList.validWordSet
  /\ query.word \notin wordList.validWordSet
  /\ <<"w","o","r","l","d">> \notin wordList.targetWordSet

\* RandomWord returns in this step
RandomWordReturns == query'.op = "RandomWord" /\ query' # query

AcceptedGuess(word) ==
  /\ ~WrongLength(Canonical(word))
  /\ Contains(wordList, Canonical(word))

TargetsAreValid == wordList.targetWordSet \subseteq wordList.validWordSet

ValidateWordReturns == query'.op = "ValidateWord" /\ query' # query

\* C28: ValidateWord(w) returns true exactly when w without its surrounding
\* white space has the configured word length and is, in lower case, in the
\* validation set; the call fails no store call and changes neither the
\* store, the word list, the configuration nor any request.
C28_ValidateWordIsPure ==
  [][ValidateWordReturns =>
       /\ query'.found =
            (/\ Len(TrimSpace(query'.word)) = config.WordLength
             /\ ToLower(TrimSpace(query'.word)) \in wordList.validWordSet)
       /\ UNCHANGED <<config, wordList, games, guesses, clock, faults, pc,
                      call, ret, race, clean, eval, reload>>]_vars

\* ValidateWord has returned true for " World ", a game being stored
C28_Witness ==
  /\ query.op = "ValidateWord"
  /\ query.word = <<" ","W","o","r","l","d"," ">>
  /\ query.found
  /\ Len(query.word) # config.WordLength
  /\ games # <<>>

\* GetRecentGames returns in this step
GetRecentGamesReturns == query'.op = "GetRecentGames" /\ query' # query

\* C29: GetRecentGames(limit) hands the store limit itself when limit is
\* from 1 to 100, and 10 otherwise.
C29_LimitClamped ==
  [][GetRecentGamesReturns =>
       /\ (1 <= query'.limit /\ query'.limit <= 100) =>
             query'.passed = query'.limit
       /\ (query'.limit < 1 \/ query'.limit > 100) => query'.passed = 10
       /\ query'.err = NoError => Len(query'.rows) <= query'.passed]_vars

\* GetRecentGames(1) has returned the later of two games, and only that
C29_Witness ==
  /\ query.op = "GetRecentGames"
  /\ query.limit = 1 /\ query.passed = 1
  /\ Len(games) = 2
  /\ query.rows = <<games[2]>>

\* C30: GetGameStats returns a mapping with the keys total_words,
\* target_words, max_guesses and word_length, holding the number of
\* validation words, the number of target words, MAX_GUESSES and
\* WORD_LENGTH.
C30_StatsKeysAndValues ==
  query.op = "GetGameStats" =>
     /\ DOMAIN query.stats =
          {"total_words", "target_words", "max_guesses", "word_length"}
     /\ query.stats.total_words = Size(wordList)
     /\ query.stats.target_words = TargetWordsSize(wordList)
     /\ query.stats.max_guesses = config.MaxGuesses
     /\ query.stats.word_length = config.WordLength

(* ------------------- properties of the evaluation, again --------------- *)
\* the positions of target holding letter that the first pass leaves
\* unconsumed
Unconsumed(guess, target, letter) ==
  {j \in DOMAIN target : target[j] = letter /\ guess[j] # target[j]}

\* the positions of guess before i that are not correct and hold letter:
\* each takes one unconsumed occurrence while there is one
EarlierClaims(guess, target, i) ==
  {k \in 1..(i - 1) : guess[k] = guess[i] /\ guess[k] # target[k]}

\* the status of position i by the two-pass rule, for words in upper case
ReferenceStatus(guess, target, i) ==
  IF guess[i] = target[i] THEN "correct"
  ELSE IF Cardinality(EarlierClaims(guess, target, i))
            < Cardinality(Unconsumed(guess, target, guess[i]))
       THEN "present"
       ELSE "absent"

Letters(result) == [i \in DOMAIN result.items |-> result.items[i].letter]

\* C32: for guess and target of equal length, the result has as many
\* entries as the guess has letters, entry i carries the i-th letter of the
\* guess in upper case, and every status is correct, present or absent.
C32_ResultShape ==
  (eval.applied /\ Len(eval.guess) = Len(eval.target)) =>
     /\ Len(eval.result.items) = Len(eval.guess)
     /\ \A i \in DOMAIN eval.guess :
          /\ eval.result.items[i].letter = ToUpperChar(eval.guess[i])
          /\ eval.result.items[i].status \in {"correct", "present", "absent"}

\* aBb, written in both cases, was evaluated against a three-letter target
\* and reported as A, B, B
C32_Witness ==
  /\ eval.applied
  /\ eval.guess = <<"a","B","b">>
  /\ Len(eval.target) = 3
  /\ Letters(eval.result) = <<"A","B","B">>
  /\ Statuses(eval.result) = <<"present", "present", "correct">>

(* ----------------------- properties of the service, again -------------- *)
\* C33: every Guess record stored has a result that is not nil and has as
\* many entries as the configured word length.
C33_StoredResultsHaveWordLength ==
  \A i \in DOMAIN guesses :
     /\ ~guesses[i].result.isNil
     /\ Len(guesses[i].result.items) = config.WordLength

\* the error of the first check that the arguments of the call of p fail,
\* in the order GameNotFound, GameAlreadyCompleted, InvalidGuessLength,
\* WordNotRecognized, NoRemainingGuesses
FirstFailure(p) ==
  LET g == call[p].gameID
      word == ToUpper(TrimSpace(call[p].rawWord))
  IN  IF g \notin DOMAIN games THEN ErrGameNotFound
      ELSE IF games[g].isCompleted THEN ErrAlreadyCompleted
      ELSE IF Len(word) # config.WordLength THEN ErrInvalidLength
      ELSE IF ToLower(word) \notin wordList.validWordSet THEN ErrNotRecognized
      ELSE IF games[g].guessCount >= games[g].maxGuesses THEN ErrNoRemaining
      ELSE NoError

\* MakeGuess of p loads the game and applies its checks in this step
ChecksApplied(p) == pc[p] = "get_game" /\ pc'[p] # "get_game"

\* the outcome of the checks of p is that of the first failure
ReportsFirstFailure(p) ==
  IF FirstFailure(p) = NoError
  THEN pc'[p] = "create_guess"
  ELSE pc'[p] = "idle" /\ ret'[p].err = FirstFailure(p)

\* C34 as stated: MakeGuess returns the error of the first check that
\* fails, in the order GameNotFound, GameAlreadyCompleted,
\* InvalidGuessLength, WordNotRecognized, NoRemainingGuesses, and goes on
\* to its writes when none fails.
C34_FirstFailingCheckReported ==
  [][\A p \in Procs : ChecksApplied(p) => ReportsFirstFailure(p)]_vars

\* C34 amended: the same whenever the store answers the load of the game.
C34_FirstFailingCheckReportedOnLoad ==
  [][\A p \in Procs :
       (ChecksApplied(p) /\ faults' = faults) => ReportsFirstFailure(p)]_vars

\* an unknown word was refused as not recognised on a game that is not
\* completed and has no guess left: of two failing checks the earlier one
\* was reported
C34_Witness ==
  \E p \in Procs, g \in DOMAIN games :
     /\ ret[p].op = "MakeGuess" /\ ret[p].err = ErrNotRecognized
     /\ ~games[g].isCompleted
     /\ games[g].guessCount >= games[g].maxGuesses

\* the last MakeGuess of p has returned without an error
Succeeded(p) == ret[p].op = "MakeGuess" /\ ret[p].err = NoError

\* the guess that the response of p counts last is the target word
GuessWins(p) ==
  \E i \in DOMAIN ret[p].guesses :
     /\ ret[p].guesses[i].guessNumber = ret[p].game.guessCount
     /\ ret[p].guesses[i].guessWord = ret[p].game.targetWord

\* C35: the message of a MakeGuess that succeeded is the win message with
\* the new guessCount when the guess is the target word, also at the last
\* allowed guess; otherwise the target word when the game is now completed;
\* otherwise maxGuesses - guessCount, which is at least 1.
C35_MessageMatchesState ==
  \A p \in Procs :
     Succeeded(p) =>
        LET game == ret[p].game
        IN  IF GuessWins(p)
            THEN /\ game.isWon
                 /\ ret[p].message = <<"won", game.guessCount>>
            ELSE IF game.isCompleted
            THEN ret[p].message = <<"over", game.targetWord>>
            ELSE /\ ret[p].message
                      = <<"remaining", game.maxGuesses - game.guessCount>>
                 /\ game.maxGuesses - game.guessCount >= 1

\* a game was won at its second and last allowed guess
C35_Witness ==
  \E p \in Procs :
     /\ Succeeded(p)
     /\ ret[p].game.maxGuesses = 2 /\ ret[p].game.guessCount = 2
     /\ GuessWins(p)
     /\ ret[p].message = <<"won", 2>>

\* the flags of a game row agree: isCompleted is IsGameComplete(), a won
\* game is completed, completedAt is set exactly on a completed game
FlagsAgree(game) ==
  /\ game.isCompleted = IsGameComplete(game)
  /\ game.isWon => game.isCompleted
  /\ (game.completedAt # NoTime) <=> game.isCompleted

\* C36 as stated: the flags of every persisted game agree.
C36_FlagsAgree ==
  \A g \in DOMAIN games : FlagsAgree(games[g])

\* C36 amended: the flags of every persisted game with maxGuesses >= 1
\* agree.
C36_FlagsAgreePositive ==
  \A g \in DOMAIN games : games[g].maxGuesses >= 1 => FlagsAgree(games[g])

\* a game of two guesses won at its first one: completed and stamped with
\* a guess to spare
C36_Witness ==
  \E g \in DOMAIN games :
     /\ games[g].maxGuesses = 2 /\ games[g].guessCount = 1
     /\ games[g].isWon /\ games[g].isCompleted
     /\ games[g].completedAt # NoTime

\* MakeGuess of p returns in this step, with or without an error, on a
\* game that exists
MakeGuessReturns(p) ==
  /\ pc[p] \in {"get_game", "create_guess", "update_game", "get_guesses"}
  /\ pc'[p] = "idle"
  /\ call[p].gameID \in DOMAIN games

\* up to the end of this step no store call has failed and no INSERT of a
\* guess was refused
NoStoreCallFailed ==
  /\ faults' = 0
  /\ \A q \in Procs : ret'[q].err # ErrDuplicateGuess

\* after this step the persisted guessCount of game g is the number of its
\* guess rows and, for maxGuesses >= 0, at most maxGuesses
CountMatchesRows(g) ==
  /\ games'[g].guessCount = Len(GuessesOf(guesses', g))
  /\ games'[g].maxGuesses >= 0 =>
       games'[g].guessCount <= games'[g].maxGuesses

\* C37 as stated: while no store call has failed, when a MakeGuess returns
\* the persisted guessCount of its game is the number of guess rows of the
\* game and, for maxGuesses >= 0, at most maxGuesses.
C37_CountMatchesRowsAtReturn ==
  [][\A p \in Procs :
       (MakeGuessReturns(p) /\ NoStoreCallFailed)
          => CountMatchesRows(call[p].gameID)]_vars

\* another call than p has written a guess row of game g and not yet
\* updated the game
WriteInFlight(p, g) ==
  \E q \in Procs \ {p} : pc'[q] = "update_game" /\ call'[q].gameID = g

\* C37 amended: while no store call has failed, when a MakeGuess returns
\* and no other MakeGuess on the game is between its write of the guess and
\* its update of the game, the persisted guessCount of the game is the
\* number of guess rows of the game and, for maxGuesses >= 0, at most
\* maxGuesses.
C37_CountMatchesRowsWhenQuiet ==
  [][\A p \in Procs :
       (MakeGuessReturns(p) /\ faults' = 0
        /\ ~WriteInFlight(p, call[p].gameID))
          => CountMatchesRows(call[p].gameID)]_vars

\* a MakeGuess has returned the second guess of a game of two guesses; no
\* store call has failed and no call is running
C37_Witness ==
  \E p \in Procs, g \in DOMAIN games :
     /\ Succeeded(p) /\ ret[p].game.id = g
     /\ faults = 0
     /\ \A q \in Procs : pc[q] = "idle"
     /\ games[g].maxGuesses = 2 /\ games[g].guessCount = 2
     /\ Len(GuessesOf(guesses, g)) = 2

\* MakeGuess of p returns an error in this step
MakeGuessFails(p) ==
  /\ pc[p] \in {"get_game", "create_guess", "update_game", "get_guesses"}
  /\ pc'[p] = "idle"
  /\ ret'[p].err # NoError

\* the call of p has persisted its update of the game: it is at its last
\* store call, the read of the guesses for the response
HasUpdatedGame(p) == pc[p] = "get_guesses"

\* C38: a MakeGuess that returns an error has not changed the persisted
\* game: it returns before its update of the game is persisted, and the
\* step in which it returns changes no game row.
C38_ErrorLeavesGameUnchanged ==
  [][\A p \in Procs :
       MakeGuessFails(p) => (~HasUpdatedGame(p) /\ games' = games)]_vars

\* C39: while the store answers every call, every call runs to its end and
\* valid guesses keep being submitted, every game with maxGuesses >= 1 is
\* eventually completed, and no game with maxGuesses >= 1 ever holds more
\* than maxGuesses guesses.
C39_GamesTerminate ==
  /\ [](\A g \in DOMAIN games :
          games[g].maxGuesses >= 1 =>
             /\ Len(GuessesOf(guesses, g)) <= games[g].maxGuesses
             /\ games[g].guessCount <= games[g].maxGuesses)
  /\ \A g \in GameIDs :
        (g \in DOMAIN games /\ games[g].maxGuesses >= 1)
          ~> (g \in DOMAIN games /\ games[g].isCompleted)

\* a game of two guesses is completed and lost, its two guesses stored, the
\* store having failed no call of the run
C39_Witness ==
  \E g \in DOMAIN games :
     /\ faults = MaxFaults
     /\ clean = [p \in Procs |-> FALSE]
     /\ games[g].maxGuesses = 2
     /\ games[g].isCompleted /\ ~games[g].isWon
     /\ Len(GuessesOf(guesses, g)) = 2

====
